---- MODULE Spec2Model ----
(***************************************************************************)
(* Digital media catalog (jjawaher/a2-vsc): the business layer             *)
(* (business.js) on top of the flat-file persistence layer                 *)
(* (persistence.js).  The three JSON files are the state; every business   *)
(* operation is one action of the sequential specification Spec, and the   *)
(* read-modify-write operations are split at their file read and file      *)
(* write boundaries in the two-process specification SpecConc.             *)
(*                                                                         *)
(* Strings that the code converts or compares by case (tags, album names,  *)
(* usernames, passwords) are sequences of character codes, so that         *)
(* String.prototype.toLowerCase is modelled by what it does.  Strings the  *)
(* code only stores and returns (title, description, filename, date,       *)
(* error messages) are TLA+ strings.  A file holds the value JSON.parse    *)
(* gives back: all values written here are strings, integers, arrays and   *)
(* plain objects, which JSON.stringify/JSON.parse reproduce unchanged.     *)
(***************************************************************************)
EXTENDS Integers, Sequences, FiniteSets, TLC

VARIABLES
  users,    \* parsed content of users.json
  albums,   \* parsed content of albums.json
  photos,   \* parsed content of photos.json
  last,     \* the last completed business call of the shell's process:
            \* [op, args, ret, wrote, before]; `before` is photos.json as it
            \* was when the call started, `wrote` the files it wrote
  proc      \* SpecConc only: per process, the operation in flight

vars == <<users, albums, photos, last, proc>>

\* ---------------------------------------------------------------- bounds

\* Longest album id list handed to mapAlbumIdsToNames.
MaxIdList == 2
\* SpecConc: business calls each process makes.
MaxCalls == 1

\* ------------------------------------------------------------- file names

PHOTO_FILE == "photos.json"
USER_FILE == "users.json"
ALBUM_FILE == "albums.json"

\* ---------------------------------------------------------------- strings

\* "tree", "Tree", "sunset", "Sunset" as character codes.
s_tree == <<116, 114, 101, 101>>
s_Tree == <<84, 114, 101, 101>>
s_sunset == <<115, 117, 110, 115, 101, 116>>
s_Sunset == <<83, 117, 110, 115, 101, 116>>
\* "amy", "Amy", "bob", "eve"
s_amy == <<97, 109, 121>>
s_Amy == <<65, 109, 121>>
s_bob == <<98, 111, 98>>
s_eve == <<101, 118, 101>>
\* "pw", "PW", "x1"
s_pw == <<112, 119>>
s_PW == <<80, 87>>
s_x1 == <<120, 49>>
\* "Trip", "trip", "TRIP", "home", "Home", "zoo"
s_Trip == <<84, 114, 105, 112>>
s_trip == <<116, 114, 105, 112>>
s_TRIP == <<84, 82, 73, 80>>
s_home == <<104, 111, 109, 101>>
s_Home == <<72, 111, 109, 101>>
s_zoo == <<122, 111, 111>>

\* Faulty variant of ToLowerCase: the tag is stored as typed.
ToLowerCase_asTyped(s) == s

\* String.prototype.toLowerCase on the ASCII range: 'A'..'Z' (65..90) map to
\* 'a'..'z' (97..122), every other code unit is kept.
ToLowerCase(s) == [i \in 1..Len(s) |-> IF s[i] \in 65..90 THEN s[i] + 32 ELSE s[i]]

\* JavaScript's undefined (what Array.prototype.find returns on no match).
Undefined == [tag |-> "undefined"]

\* Array.prototype.includes
includes(arr, x) == \E i \in 1..Len(arr) : arr[i] = x

\* The first of the positions M of an array, 0 when there is none: where
\* the scan of Array.prototype.find, and of the for..of loops that break on
\* their first match, stops.
FirstIndex(M) ==
  IF M = {} THEN 0 ELSE CHOOSE i \in M : \A j \in M : i <= j

\* Array.prototype.find, given the positions M whose elements match.
find(arr, M) ==
  LET i == FirstIndex(M) IN IF i = 0 THEN Undefined ELSE arr[i]

\* ------------------------------------------------------------- seed data

\* The albums field of a photo: a JSON array of album ids, or a value that
\* is not an array.  isArray is what Array.isArray answers; items are the
\* values a call of includes on the field would match (for the string "1"
\* of SeedB: the album id 1).
AlbumsArray(ids) == [isArray |-> TRUE, items |-> ids]
AlbumsNotArray(ids) == [isArray |-> FALSE, items |-> ids]

Photo(id, owner, filename, title, description, albumsField, tags) ==
  [id |-> id, owner |-> owner, filename |-> filename, title |-> title,
   description |-> description, date |-> "2024-01-05T10:00:00Z",
   albums |-> albumsField, tags |-> tags]

SeedUsers ==
  << [id |-> 1, username |-> s_amy, password |-> s_pw],
     [id |-> 2, username |-> s_bob, password |-> s_x1] >>

SeedAlbums ==
  << [id |-> 1, name |-> s_Trip],
     [id |-> 2, name |-> s_home] >>

SeedA ==
  << Photo(7, 1, "a.jpg", "Old", "", AlbumsArray(<<1, 2>>), <<s_tree>>),
     Photo(8, 2, "b.jpg", "Old", "", AlbumsArray(<<1>>), <<>>) >>

SeedB ==
  << Photo(7, 1, "a.jpg", "Old", "", AlbumsNotArray(<<1>>), <<>>),
     Photo(8, 1, "b.jpg", "New", "desc", AlbumsArray(<<2, 1>>), <<s_sunset>>) >>

SeedPhotos == {SeedA, SeedB}

\* ----------------------------------------------------------------- inputs

UserIds == {1, 2}
PhotoIds == {7, 8, 9}
Tags == {s_tree, s_Tree, s_sunset, s_Sunset}
Titles == {"Old", "New"}
Descriptions == {"", "desc"}
Usernames == {s_amy, s_Amy, s_bob, s_eve}
Passwords == {s_pw, s_PW, s_x1}
AlbumNames == {s_Trip, s_trip, s_TRIP, s_Home, s_zoo}
AlbumIds == {1, 2, 3}
\* SpecConc: the photo the two processes race on, and an id of no photo.
ConcPhotoIds == {7, 9}
AlbumIdLists == UNION {[1..n -> AlbumIds] : n \in 0..MaxIdList}

\* ------------------------------------------------------------ persistence

\* readJson(USER_FILE), readJson(ALBUM_FILE), readJson(PHOTO_FILE)
getAllUsers == users
getAllAlbums == albums
getAllPhotos == photos

getUserByUsername(username) ==
  LET list == getAllUsers
  IN find(list, {i \in DOMAIN list : list[i].username = username})

getAlbumById(albumId) ==
  LET list == getAllAlbums
  IN find(list, {i \in DOMAIN list : list[i].id = albumId})

getAlbumByName(name) ==
  LET list == getAllAlbums
      n == ToLowerCase(name)
  IN find(list, {i \in DOMAIN list : ToLowerCase(list[i].name) = n})

\* Faulty variant of getPhotoById: the last photo is returned when none matches.
getPhotoById_fallback(photoId) ==
  LET list == getAllPhotos
      i == FirstIndex({k \in DOMAIN list : list[k].id = photoId})
  IN IF i = 0 THEN list[Len(list)] ELSE list[i]

getPhotoById(photoId) ==
  LET list == getAllPhotos
  IN find(list, {i \in DOMAIN list : list[i].id = photoId})

\* Faulty variant of updatePhotoById: the description is not written.
updatePhotoById_titleOnly(photoId, title, description) ==
  LET list == getAllPhotos
      i == FirstIndex({k \in DOMAIN list : list[k].id = photoId})
  IN [updated |-> i # 0,
      photoList |-> IF i = 0 THEN list ELSE [list EXCEPT ![i].title = title]]

\* Faulty variant of updatePhotoById: every photo up to the match is overwritten.
updatePhotoById_prefix(photoId, title, description) ==
  LET list == getAllPhotos
      i == FirstIndex({k \in DOMAIN list : list[k].id = photoId})
  IN [updated |-> i # 0,
      photoList |-> [k \in 1..Len(list) |->
                       IF k <= i
                       THEN [list[k] EXCEPT !.title = title, !.description = description]
                       ELSE list[k]]]

\* updatePhotoById up to its write: the freshly read list with title and
\* description of the first photo with that id overwritten, and whether one
\* was found.  The write (saveAllPhotos) follows only when updated.
updatePhotoById(photoId, title, description) ==
  LET list == getAllPhotos
      i == FirstIndex({k \in DOMAIN list : list[k].id = photoId})
  IN [updated |-> i # 0,
      photoList |-> IF i = 0 THEN list
                    ELSE [list EXCEPT ![i].title = title,
                                      ![i].description = description]]

\* Faulty variant of addTagToPhoto: the tag list is replaced by the new tag.
addTagToPhoto_replace(photoId, tag) ==
  LET list == getAllPhotos
      i == FirstIndex({k \in DOMAIN list : list[k].id = photoId})
  IN [updated |-> i # 0,
      photoList |-> IF i = 0 THEN list ELSE [list EXCEPT ![i].tags = <<tag>>]]

\* addTagToPhoto up to its write: the freshly read list with tag pushed onto
\* the tags of the first photo with that id (no duplicate filtering).
addTagToPhoto(photoId, tag) ==
  LET list == getAllPhotos
      i == FirstIndex({k \in DOMAIN list : list[k].id = photoId})
  IN [updated |-> i # 0,
      photoList |-> IF i = 0 THEN list
                    ELSE [list EXCEPT ![i].tags = Append(@, tag)]]

\* Faulty variant of listPhotosInAlbum: no Array.isArray test.
listPhotosInAlbum_noArrayTest(albumId) ==
  LET In(p) == includes(p.albums.items, albumId)
  IN SelectSeq(getAllPhotos, In)

listPhotosInAlbum(albumId) ==
  LET In(p) == p.albums.isArray /\ includes(p.albums.items, albumId)
  IN SelectSeq(getAllPhotos, In)

\* --------------------------------------------------------------- business

NotFound == "Photo not found"
AccessDenied == "Access denied (not your photo)"
AlbumNotFound == "Album not found"

\* What a business call hands back to the action that runs it: its return
\* value, whether it reached saveAllPhotos, and the list it saved.
Out(ret) == [ret |-> ret, write |-> FALSE, photoList |-> photos]
OutWrite(ret, r) == [ret |-> ret, write |-> r.updated, photoList |-> r.photoList]

\* Faulty variant of login: the password is not compared.
login_anyPassword(username, password) ==
  LET user == getUserByUsername(username)
  IN IF user # Undefined
     THEN Out([id |-> user.id, username |-> user.username])
     ELSE Out(Undefined)

login(username, password) ==
  LET user == getUserByUsername(username)
  IN IF user # Undefined /\ user.password = password
     THEN Out([id |-> user.id, username |-> user.username])
     ELSE Out(Undefined)

getOwnedPhoto(userId, photoId) ==
  LET p == getPhotoById(photoId)
  IN IF p = Undefined THEN Out([error |-> NotFound])
     ELSE IF p.owner # userId THEN Out([error |-> AccessDenied])
     ELSE Out(p)

\* Faulty variant of updatePhotoDetails: the ownership test is missing.
updatePhotoDetails_noOwnerTest(userId, photoId, title, description) ==
  LET p == getPhotoById(photoId)
  IN IF p = Undefined THEN Out([ok |-> FALSE, error |-> NotFound])
     ELSE LET r == updatePhotoById(photoId, title, description)
          IN OutWrite([ok |-> r.updated], r)

updatePhotoDetails(userId, photoId, title, description) ==
  LET p == getPhotoById(photoId)
  IN IF p = Undefined THEN Out([ok |-> FALSE, error |-> NotFound])
     ELSE IF p.owner # userId THEN Out([ok |-> FALSE, error |-> AccessDenied])
     ELSE LET r == updatePhotoById(photoId, title, description)
          IN OutWrite([ok |-> r.updated], r)

\* Faulty variant of addTag: the duplicate test is missing.
addTag_noDuplicateTest(userId, photoId, tag) ==
  LET p == getPhotoById(photoId)
  IN IF p = Undefined THEN Out([ok |-> FALSE, error |-> NotFound])
     ELSE IF p.owner # userId THEN Out([ok |-> FALSE, error |-> AccessDenied])
     ELSE LET t == ToLowerCase(tag)
              r == addTagToPhoto(photoId, t)
          IN OutWrite([ok |-> r.updated], r)

addTag(userId, photoId, tag) ==
  LET p == getPhotoById(photoId)
  IN IF p = Undefined THEN Out([ok |-> FALSE, error |-> NotFound])
     ELSE IF p.owner # userId THEN Out([ok |-> FALSE, error |-> AccessDenied])
     ELSE LET t == ToLowerCase(tag)
          IN IF includes(p.tags, t)
             THEN Out([ok |-> TRUE, skipped |-> TRUE])
             ELSE LET r == addTagToPhoto(photoId, t)
                  IN OutWrite([ok |-> r.updated], r)

getUserPhotosInAlbum(userId, albumName) ==
  LET album == getAlbumByName(albumName)
  IN IF album = Undefined THEN Out([error |-> AlbumNotFound])
     ELSE LET all == listPhotosInAlbum(album.id)
              Mine(p) == p.owner = userId
          IN Out([album |-> album, photos |-> SelectSeq(all, Mine)])

RECURSIVE mapNames(_, _)
\* The loop of mapAlbumIdsToNames from position k on.
mapNames(albumIdList, k) ==
  IF k > Len(albumIdList) THEN <<>>
  ELSE LET a == getAlbumById(albumIdList[k])
       IN (IF a # Undefined THEN <<a.name>> ELSE <<>>) \o mapNames(albumIdList, k + 1)

mapAlbumIdsToNames(albumIdList) == Out(mapNames(albumIdList, 1))

\* ---------------------------------------------- the shell's process (Spec)

\* A process of SpecConc before its first call.
Idle ==
  [pc |-> "idle", op |-> "none", args |-> <<>>, photoList |-> <<>>,
   ret |-> Undefined, calls |-> 0]

Procs == {1, 2}

\* One business call run to completion: saveAllPhotos when the call reached
\* it, and the call's record.
Call(op, args, out) ==
  /\ photos' = IF out.write THEN out.photoList ELSE photos
  /\ last' = [op |-> op, args |-> args, ret |-> out.ret,
              wrote |-> IF out.write THEN {PHOTO_FILE} ELSE {},
              before |-> photos]
  /\ UNCHANGED <<users, albums, proc>>

Login ==
  \E username \in Usernames, password \in Passwords :
    Call("login", <<username, password>>, login(username, password))

GetOwnedPhoto ==
  \E userId \in UserIds, photoId \in PhotoIds :
    Call("getOwnedPhoto", <<userId, photoId>>, getOwnedPhoto(userId, photoId))

UpdatePhotoDetails ==
  \E userId \in UserIds, photoId \in PhotoIds, title \in Titles,
     description \in Descriptions :
    Call("updatePhotoDetails", <<userId, photoId, title, description>>,
         updatePhotoDetails(userId, photoId, title, description))

AddTag ==
  \E userId \in UserIds, photoId \in PhotoIds, tag \in Tags :
    Call("addTag", <<userId, photoId, tag>>, addTag(userId, photoId, tag))

GetUserPhotosInAlbum ==
  \E userId \in UserIds, albumName \in AlbumNames :
    Call("getUserPhotosInAlbum", <<userId, albumName>>,
         getUserPhotosInAlbum(userId, albumName))

MapAlbumIdsToNames ==
  \E albumIdList \in AlbumIdLists :
    Call("mapAlbumIdsToNames", <<albumIdList>>, mapAlbumIdsToNames(albumIdList))

Init ==
  /\ users = SeedUsers
  /\ albums = SeedAlbums
  /\ photos \in SeedPhotos
  /\ last = [op |-> "none", args |-> <<>>, ret |-> Undefined, wrote |-> {},
             before |-> photos]
  /\ proc = [self \in Procs |-> Idle]

Next ==
  \/ Login
  \/ GetOwnedPhoto
  \/ UpdatePhotoDetails
  \/ AddTag
  \/ GetUserPhotosInAlbum
  \/ MapAlbumIdsToNames

Spec == Init /\ [][Next]_vars

\* ------------------------------- two processes on one photos.json (SpecConc)

\* Two runs of the program share photos.json.  A process is suspended only
\* at its awaits on the file system, so each step below is one file read or
\* one file write together with the synchronous code around it:
\*   pc = "idle"             no call made yet
\*   pc = "addTagToPhoto"    addTag passed its checks on the first read and
\*                           is about to read in addTagToPhoto
\*   pc = "updatePhotoById"  the same for updatePhotoDetails
\*   pc = "saveAllPhotos"    the list was read and changed in memory
\*                           (photoList) and is about to be written
\*   pc = "returned"         the call returned ret

\* Faulty variant of saveAllPhotos: tags found in the file and missing from the list
\* are kept.
saveAllPhotos_merge(photoList) ==
  photos' = [i \in DOMAIN photoList |->
               LET Missing(t) == ~includes(photos[i].tags, t)
               IN [photoList[i] EXCEPT
                     !.tags = photos[i].tags \o SelectSeq(photoList[i].tags, Missing)]]

\* writeJson(PHOTO_FILE, photoList): the whole file is replaced.
saveAllPhotos(photoList) == photos' = photoList

Returned(self, op, args, ret) ==
  [pc |-> "returned", op |-> op, args |-> args, photoList |-> <<>>,
   ret |-> ret, calls |-> proc[self].calls + 1]

CanCall(self) ==
  /\ proc[self].pc \in {"idle", "returned"}
  /\ proc[self].calls < MaxCalls

\* addTag up to its first await that can suspend after the checks: the read
\* of getPhotoById, the checks and the duplicate test on what was read.
PAddTag(self) ==
  \E userId \in UserIds, photoId \in ConcPhotoIds, tag \in Tags :
    LET args == <<userId, photoId, tag>>
        p == getPhotoById(photoId)
    IN /\ CanCall(self)
       /\ proc' = [proc EXCEPT ![self] =
            IF p = Undefined
            THEN Returned(self, "addTag", args, [ok |-> FALSE, error |-> NotFound])
            ELSE IF p.owner # userId
            THEN Returned(self, "addTag", args, [ok |-> FALSE, error |-> AccessDenied])
            ELSE IF includes(p.tags, ToLowerCase(tag))
            THEN Returned(self, "addTag", args, [ok |-> TRUE, skipped |-> TRUE])
            ELSE [pc |-> "addTagToPhoto", op |-> "addTag", args |-> args,
                  photoList |-> <<>>, ret |-> Undefined,
                  calls |-> proc[self].calls]]
       /\ UNCHANGED <<users, albums, photos, last>>

\* addTagToPhoto: its own read of the file and the push in memory.
PAddTagToPhoto(self) ==
  /\ proc[self].pc = "addTagToPhoto"
  /\ LET r == addTagToPhoto(proc[self].args[2], ToLowerCase(proc[self].args[3]))
     IN proc' = [proc EXCEPT ![self] =
          IF r.updated
          THEN [@ EXCEPT !.pc = "saveAllPhotos", !.photoList = r.photoList]
          ELSE Returned(self, "addTag", proc[self].args, [ok |-> FALSE])]
  /\ UNCHANGED <<users, albums, photos, last>>

\* updatePhotoDetails up to the end of its checks on the first read.
PUpdatePhotoDetails(self) ==
  \E userId \in UserIds, photoId \in ConcPhotoIds, title \in Titles,
     description \in Descriptions :
    LET args == <<userId, photoId, title, description>>
        p == getPhotoById(photoId)
    IN /\ CanCall(self)
       /\ proc' = [proc EXCEPT ![self] =
            IF p = Undefined
            THEN Returned(self, "updatePhotoDetails", args,
                          [ok |-> FALSE, error |-> NotFound])
            ELSE IF p.owner # userId
            THEN Returned(self, "updatePhotoDetails", args,
                          [ok |-> FALSE, error |-> AccessDenied])
            ELSE [pc |-> "updatePhotoById", op |-> "updatePhotoDetails",
                  args |-> args, photoList |-> <<>>, ret |-> Undefined,
                  calls |-> proc[self].calls]]
       /\ UNCHANGED <<users, albums, photos, last>>

\* updatePhotoById: its own read of the file and the overwrite in memory.
PUpdatePhotoById(self) ==
  /\ proc[self].pc = "updatePhotoById"
  /\ LET r == updatePhotoById(proc[self].args[2], proc[self].args[3],
                              proc[self].args[4])
     IN proc' = [proc EXCEPT ![self] =
          IF r.updated
          THEN [@ EXCEPT !.pc = "saveAllPhotos", !.photoList = r.photoList]
          ELSE Returned(self, "updatePhotoDetails", proc[self].args, [ok |-> FALSE])]
  /\ UNCHANGED <<users, albums, photos, last>>

\* The write that ends updatePhotoById and addTagToPhoto, and the return of
\* {ok: true} that follows it.
PSaveAllPhotos(self) ==
  /\ proc[self].pc = "saveAllPhotos"
  /\ saveAllPhotos(proc[self].photoList)
  /\ proc' = [proc EXCEPT ![self] =
       [@ EXCEPT !.pc = "returned", !.ret = [ok |-> TRUE], !.calls = @ + 1]]
  /\ UNCHANGED <<users, albums, last>>

NextConc ==
  \E self \in Procs :
    \/ PAddTag(self)
    \/ PAddTagToPhoto(self)
    \/ PUpdatePhotoDetails(self)
    \/ PUpdatePhotoById(self)
    \/ PSaveAllPhotos(self)

\* Both processes start on the photos.json of SeedB, whose photo 7 has no tag yet.
InitConc == Init /\ photos = SeedB

SpecConc == InitConc /\ [][NextConc]_vars

\* ------------------------------------------------- vocabulary of the claims

\* The lowercase form of a string, written out independently of ToLowerCase.
LowercaseForm(s) ==
  [i \in DOMAIN s |-> IF s[i] >= 65 /\ s[i] <= 90 THEN s[i] + 32 ELSE s[i]]

\* Case-insensitive comparison of two strings, by folding to upper case.
UppercaseForm(s) ==
  [i \in DOMAIN s |-> IF s[i] >= 97 /\ s[i] <= 122 THEN s[i] - 32 ELSE s[i]]
EqualIgnoringCase(a, b) == UppercaseForm(a) = UppercaseForm(b)

\* The positions of the photos with id p in a photo list.
WithId(list, p) == {i \in DOMAIN list : list[i].id = p}

\* The fields of a photo that no operation writes.
Frame(p) == <<p.id, p.owner, p.filename, p.date, p.albums>>

\* ------------------------------------------------------------------ claims

\* C1: getOwnedPhoto(u, p) yields NotFound when no stored photo has id p,
\* AccessDenied when the stored photo with id p has another owner, and
\* otherwise a record equal to the stored photo; it never writes the photo
\* collection.
C1_GetOwnedPhoto ==
  last.op = "getOwnedPhoto" =>
    LET u == last.args[1]
        p == last.args[2]
        S == last.before
    IN /\ WithId(S, p) = {} => last.ret = [error |-> NotFound]
       /\ \A i \in WithId(S, p) :
            IF S[i].owner # u
            THEN last.ret = [error |-> AccessDenied]
            ELSE last.ret = S[i]
       /\ last.wrote = {}
       /\ photos = S

\* C1 witness: an owner fetched their photo and got the stored record.
C1_Witness ==
  /\ last.op = "getOwnedPhoto"
  /\ \E i \in DOMAIN photos :
       /\ photos[i].id = last.args[2]
       /\ photos[i].owner = last.args[1]
       /\ last.ret = photos[i]

\* C2: updatePhotoDetails and addTag by a requester who is not the owner
\* fail with AccessDenied and leave the stored photos unchanged, and a
\* photo's title, description and tags change only in a call whose requester
\* is that photo's owner.
C2_OwnerOnlyWrites ==
  /\ last.op \in {"updatePhotoDetails", "addTag"} =>
       \A i \in WithId(last.before, last.args[2]) :
         last.before[i].owner # last.args[1] =>
           /\ last.ret = [ok |-> FALSE, error |-> AccessDenied]
           /\ photos = last.before
           /\ last.wrote = {}
  /\ \A i \in DOMAIN photos :
       (\/ photos[i].title # last.before[i].title
        \/ photos[i].description # last.before[i].description
        \/ photos[i].tags # last.before[i].tags) =>
         /\ last.op \in {"updatePhotoDetails", "addTag"}
         /\ last.args[1] = last.before[i].owner

\* C2 witness: addTag(2, 7, "Tree") on photo 7 of user 1 was denied and the
\* stored tags of photo 7 are still ["tree"].
C2_Witness ==
  /\ last.op = "addTag"
  /\ last.args = <<2, 7, s_Tree>>
  /\ last.ret = [ok |-> FALSE, error |-> AccessDenied]
  /\ \E i \in DOMAIN photos :
       photos[i].id = 7 /\ photos[i].owner = 1 /\ photos[i].tags = <<s_tree>>

\* C3: from seed data whose tags are lowercase and pairwise distinct, no
\* stored tag list ever holds two values equal under case-insensitive
\* comparison.
C3_NoDuplicateTags ==
  \A i \in DOMAIN photos :
    \A j, k \in DOMAIN photos[i].tags :
      j # k => ~EqualIgnoringCase(photos[i].tags[j], photos[i].tags[k])

\* C3 witness: an addTag given a mixed-case tag was skipped on a photo that
\* holds two tags.
C3_Witness ==
  /\ last.op = "addTag"
  /\ last.args[3] # LowercaseForm(last.args[3])
  /\ last.ret = [ok |-> TRUE, skipped |-> TRUE]
  /\ \E i \in WithId(photos, last.args[2]) : Len(photos[i].tags) = 2

\* C4: when addTag(u, p, T1) by the owner is followed by addTag(u, p, T2)
\* with the same lowercase form, the second call returns
\* {ok:true, skipped:true}, writes nothing and leaves the stored photos as
\* the first call left them.
C4_AddTagIdempotent ==
  [][ ( /\ last.op = "addTag"
        /\ last'.op = "addTag"
        /\ last'.args[1] = last.args[1]
        /\ last'.args[2] = last.args[2]
        /\ LowercaseForm(last'.args[3]) = LowercaseForm(last.args[3])
        /\ \E i \in WithId(photos, last.args[2]) :
             photos[i].owner = last.args[1] )
      => ( /\ last'.ret = [ok |-> TRUE, skipped |-> TRUE]
           /\ last'.wrote = {}
           /\ photos' = photos ) ]_vars

\* C4 witness: photo 7 of SeedB starts without tags; its owner's
\* addTag(1, 7, "Tree") was skipped on the stored list ["tree"], which only
\* an earlier addTag of the owner can have written.
C4_Witness ==
  /\ last.op = "addTag"
  /\ last.args = <<1, 7, s_Tree>>
  /\ last.ret = [ok |-> TRUE, skipped |-> TRUE]
  /\ last.wrote = {}
  /\ photos[1].id = 7
  /\ ~photos[1].albums.isArray
  /\ photos[1].tags = <<s_tree>>

\* C5: addTag by the owner with a tag whose lowercase form is not stored
\* returns {ok:true} and appends the lowercase form to the photo's tags; a
\* tag typed with upper-case letters is never stored as typed.
C5_AddTagLowercases ==
  last.op = "addTag" =>
    LET u == last.args[1]
        p == last.args[2]
        tag == last.args[3]
        S == last.before
    IN /\ \A i \in WithId(S, p) :
            (S[i].owner = u /\ ~includes(S[i].tags, LowercaseForm(tag))) =>
              /\ last.ret = [ok |-> TRUE]
              /\ photos[i].tags = Append(S[i].tags, LowercaseForm(tag))
       /\ tag # LowercaseForm(tag) =>
            \A i \in DOMAIN photos :
              includes(photos[i].tags, tag) => includes(S[i].tags, tag)

\* C5 witness: addTag(u, p, "Sunset") by the owner stored "sunset".
C5_Witness ==
  /\ last.op = "addTag"
  /\ last.args[3] = s_Sunset
  /\ last.ret = [ok |-> TRUE]
  /\ \E i \in WithId(photos, last.args[2]) :
       /\ photos[i].owner = last.args[1]
       /\ includes(photos[i].tags, s_sunset)
       /\ ~includes(photos[i].tags, s_Sunset)
       /\ ~includes(last.before[i].tags, s_sunset)

\* C6: updatePhotoDetails(u, p, T, D) by the owner returns ok true, and the
\* getOwnedPhoto(u, p) that follows returns title T, description D and the
\* other fields as they were before the update.
C6_UpdateRoundTrip ==
  [][ last.op = "updatePhotoDetails" =>
        \A i \in WithId(last.before, last.args[2]) :
          last.before[i].owner = last.args[1] =>
            /\ last.ret = [ok |-> TRUE]
            /\ ( /\ last'.op = "getOwnedPhoto"
                 /\ last'.args = <<last.args[1], last.args[2]>> )
               => /\ last'.ret.title = last.args[3]
                  /\ last'.ret.description = last.args[4]
                  /\ Frame(last'.ret) = Frame(last.before[i])
                  /\ last'.ret.tags = last.before[i].tags ]_vars

\* C6 witness: after updatePhotoDetails(1, 7, "New", "desc") on photo 7 of
\* SeedA (title "Old", tags ["tree"]), getOwnedPhoto(1, 7) returned title
\* "New", description "desc" and tags ["tree"].
C6_Witness ==
  /\ last.op = "getOwnedPhoto"
  /\ last.args = <<1, 7>>
  /\ last.ret # [error |-> NotFound]
  /\ last.ret # [error |-> AccessDenied]
  /\ last.ret.albums = AlbumsArray(<<1, 2>>)
  /\ last.ret.title = "New"
  /\ last.ret.description = "desc"
  /\ last.ret.tags = <<s_tree>>

\* C7: login returns {id, username} exactly when a stored user has that
\* username and that password, both compared exactly; otherwise it returns
\* undefined; it writes no file.
C7_Login ==
  last.op = "login" =>
    LET username == last.args[1]
        password == last.args[2]
        M == {i \in DOMAIN users :
                users[i].username = username /\ users[i].password = password}
    IN /\ M = {} => last.ret = Undefined
       /\ \A i \in M : last.ret = [id |-> users[i].id, username |-> username]
       /\ last.wrote = {}
       /\ photos = last.before

\* C7 witness: a login with the stored username and password returned the
\* user without the password.
C7_Witness ==
  /\ last.op = "login"
  /\ last.ret # Undefined
  /\ DOMAIN last.ret = {"id", "username"}

\* C8: getUserPhotosInAlbum(u, name) yields NotFound when no album's name
\* equals name ignoring case; otherwise it returns that album and exactly
\* the photos of u whose albums field is an array holding the album's id,
\* in collection order.
C8_UserPhotosInAlbum ==
  last.op = "getUserPhotosInAlbum" =>
    LET u == last.args[1]
        M == {i \in DOMAIN albums : EqualIgnoringCase(albums[i].name, last.args[2])}
    IN /\ M = {} => last.ret = [error |-> AlbumNotFound]
       /\ \A i \in M :
            LET Mine(p) == /\ p.owner = u
                           /\ p.albums.isArray
                           /\ \E k \in DOMAIN p.albums.items :
                                p.albums.items[k] = albums[i].id
            IN last.ret = [album |-> albums[i], photos |-> SelectSeq(photos, Mine)]

\* C8 witness: an album asked for in another case was found, a photo of the
\* requester was returned, and a photo of the requester whose albums field
\* is no array was left out.
C8_Witness ==
  /\ last.op = "getUserPhotosInAlbum"
  /\ last.ret # [error |-> AlbumNotFound]
  /\ last.ret.album.name # last.args[2]
  /\ Len(last.ret.photos) > 0
  /\ \E i \in DOMAIN photos :
       /\ photos[i].owner = last.args[1]
       /\ ~photos[i].albums.isArray
       /\ \A k \in DOMAIN last.ret.photos : last.ret.photos[k] # photos[i]

\* C9: users and albums never change; the photo list keeps its length and
\* its (id, owner, filename, date, albums) columns; a call changes at most
\* the first photo with the id it was given, and only updatePhotoDetails and
\* addTag change one.
C9_NoCreateNoDelete ==
  /\ users = SeedUsers
  /\ albums = SeedAlbums
  /\ \E S \in SeedPhotos :
       /\ Len(photos) = Len(S)
       /\ \A i \in DOMAIN S : Frame(photos[i]) = Frame(S[i])
  /\ Len(photos) = Len(last.before)
  /\ photos # last.before =>
       /\ last.op \in {"updatePhotoDetails", "addTag"}
       /\ \A j \in DOMAIN photos :
            photos[j] # last.before[j] =>
              /\ photos[j].id = last.args[2]
              /\ \A k \in 1..(j - 1) : photos[k].id # last.args[2]

\* C9 witness: a successful updatePhotoDetails changed the second photo of
\* the list and nothing else.
C9_Witness ==
  /\ last.op = "updatePhotoDetails"
  /\ last.ret = [ok |-> TRUE]
  /\ photos[2] # last.before[2]
  /\ photos[1] = last.before[1]

\* C10: a write replaces the whole file by the list its writer read
\* earlier and changed, whatever the file holds by then: the last writer
\* wins, and an update written between that read and this write is lost.
C10_LastWriterWins ==
  [][ \A self \in Procs :
        ( /\ proc[self].pc = "saveAllPhotos"
          /\ proc'[self].pc = "returned" )
        => /\ photos' = proc[self].photoList
           /\ proc'[self].ret = [ok |-> TRUE] ]_vars

\* C10 witness: both processes returned {ok:true} from addTag calls of the
\* owner on photo 7 with different tags, and the stored photo holds the tag
\* of one of them only.
C10_Witness ==
  \E w \in Procs, l \in Procs :
    /\ w # l
    /\ proc[w].pc = "returned" /\ proc[w].op = "addTag"
    /\ proc[l].pc = "returned" /\ proc[l].op = "addTag"
    /\ proc[w].ret = [ok |-> TRUE]
    /\ proc[l].ret = [ok |-> TRUE]
    /\ proc[w].args[2] = 7 /\ proc[l].args[2] = 7
    /\ LowercaseForm(proc[w].args[3]) # LowercaseForm(proc[l].args[3])
    /\ \E i \in WithId(photos, 7) :
         /\ includes(photos[i].tags, LowercaseForm(proc[w].args[3]))
         /\ ~includes(photos[i].tags, LowercaseForm(proc[l].args[3]))

====
